---- MODULE Spec2Model ----
(***************************************************************************)
(* Reconciliation engine of the query operators: the DatabaseQueryResource *)
(* controller and the HTTPQueryResource controller.  One Reconcile call is *)
(* one action.  The cluster store, the instance (custom resource), the     *)
(* external source and a report of the last Reconcile call are the state.  *)
(***************************************************************************)
EXTENDS Integers, Sequences, FiniteSets, TLC

\* ------------------------------------------------------------------ bounds
\* Longest query result / HTTP response (number of records).
MaxRows == 2
\* Longest --gvk-pattern (characters) handed to ParseGVKs.
MaxPatternLen == 7
\* Latest time the clock of the setCondition calls shows.
MaxClock == 2
\* Most calls that fail (list, delete, instance update, write-back) in one
\* Reconcile.
MaxFaults == 1
\* Most children listed for the write-back of one DB Reconcile.
MaxChildren == 2

\* ------------------------------------------------------- program constants
HTTPControllerName == "httpqueryresource-controller"
ConditionReconciled == "Reconciled"
ConditionDBConnected == "DBConnected"
ConditionHTTPConnected == "HTTPConnected"
DatabaseQueryFinalizer == "konnektr.io/databasequeryresource-finalizer"
HTTPQueryFinalizer == "konnektr.io/httpqueryresource-finalizer"
\* The finalizer the API server adds for a foreground deletion (not the operator's).
ForegroundFinalizer == "foregroundDeletion"

\* ------------------------------------------------------------ the universe
ConfigMap == [group |-> "", version |-> "v1", kind |-> "ConfigMap"]
Secret == [group |-> "", version |-> "v1", kind |-> "Secret"]
\* The watched kinds (--gvk-pattern "v1/ConfigMap;v1/Secret"), in list order.
OwnedGVKs == <<ConfigMap, Secret>>
GVKSet == {OwnedGVKs[i] : i \in DOMAIN OwnedGVKs}
\* Resource names, in the order the store lists them.
NameSeq == <<"a", "b">>
NameSet == {NameSeq[i] : i \in DOMAIN NameSeq}
\* The instance (custom resource) and its namespace.
InstName == "inst"
InstUID == "uid-1"
InstNamespace == "default"
OtherNamespace == "other"

\* Identity of a live object of the instance's namespace.  The Secret named
\* "b" is left out to keep the store small.
Ids == [gvk : GVKSet, name : NameSet] \ {[gvk |-> Secret, name |-> "b"]}

\* A record of the source.  fault says which step of this record fails:
\* the template execution, the decoding of its output, or the apply call
\* (the API server rejects the manifest); ns is the namespace the template
\* renders ("" when it renders none).
Faults == {"none", "render", "decode", "invalid"}
Row == [gvk : GVKSet, name : NameSet, ns : {"", InstNamespace, OtherNamespace}, fault : Faults]
RowSet ==
  {r \in Row :
     /\ [gvk |-> r.gvk, name |-> r.name] \in Ids
     /\ \/ r.fault = "none" /\ r.ns = ""
        \/ r.fault = "none" /\ r.ns = OtherNamespace /\ r.gvk = ConfigMap /\ r.name = "b"
        \/ r.fault # "none" /\ r.ns = "" /\ r.gvk = ConfigMap /\ r.name = "b"}

\* Store calls that can fail in one Reconcile.
FaultPoints ==
  {<<"list", g>> : g \in GVKSet} \cup {<<"delete", i>> : i \in Ids} \cup {<<"update">>}
FaultSets == {f \in SUBSET FaultPoints : Cardinality(f) <= MaxFaults}
\* A call can only fail if it is made: the delete faults are among the deletes
\* issued, and the instance update fails only if it is reached.
FaultsHit(faults, delIssued, updateReached) ==
  /\ \A i \in Ids : <<"delete", i>> \in faults => i \in delIssued
  /\ <<"update">> \in faults => updateReached

VARIABLES
  ctl,            \* the controller at work: "db" or "http"
  userFinalizer,  \* did the user put the operator's finalizer on the instance?
  inst,           \* the instance: phase, finalizers, generation, spec.prune, its configuration
  status,         \* the instance's status: conditions, managedResources, observedGeneration
  store,          \* the live objects of the namespace: id -> [label, owner, ns, annotations]
  source,         \* what the query / the HTTP request returns now
  cyc,            \* the report of the last Reconcile call
  call,           \* the last call of a utility function: name, input, output
  conditions,     \* a status.conditions slice that setCondition is called on
  now             \* the clock setCondition reads (metav1.Now)
\* The state of the reconciliation engine, and the state of the unit
\* specifications (utility functions called on their own).
engineVars == <<ctl, userFinalizer, inst, status, store, source, cyc>>
unitVars == <<call, conditions, now>>
vars == <<ctl, userFinalizer, inst, status, store, source, cyc, call, conditions, now>>

\* ------------------------------------------------------------ store helpers
\* A slip: writing an object that is already live removes it.
PutOrDrop(st, id, res) ==
  IF id \in DOMAIN st THEN [i \in DOMAIN st \ {id} |-> st[i]]
  ELSE [i \in DOMAIN st \cup {id} |-> IF i = id THEN res ELSE st[i]]

\* Create or replace / delete a live object.
Put(st, id, res) == [i \in DOMAIN st \cup {id} |-> IF i = id THEN res ELSE st[i]]
Remove(st, id) == [i \in DOMAIN st \ {id} |-> st[i]]

\* The secrets of the cluster are a set of [namespace, name, data], at most one
\* per namespace and name; data is a set of <<key, value>> pairs, at most one
\* per key.  Client.Get of a secret: found or not.
SecretGet(secrets, namespace, name) ==
  IF \E x \in secrets : x.namespace = namespace /\ x.name = name
    THEN [found |-> TRUE,
          data |-> (CHOOSE x \in secrets : x.namespace = namespace /\ x.name = name).data]
    ELSE [found |-> FALSE, data |-> {}]

\* The report of a Reconcile call: which path it took (kind), the outcome of
\* the steps before the row loop (pre), the store calls it issued and what it
\* returned.  "none" when something else happened since the last call.
\* connected: the database / HTTP client was asked for; fetched: the query or
\* the HTTP request was executed; wb: how the write-back ended; statusUpdates:
\* the conditions each Status().Update call of the cycle persisted, in order.
NoCycle ==
  [kind |-> "none", pre |-> "ok", listed |-> FALSE, listErr |-> FALSE,
   applied |-> {}, errors |-> <<>>, delIssued |-> {}, delFailed |-> {},
   finalizerRemoved |-> FALSE, err |-> FALSE, requeue |-> "none", statusWritten |-> FALSE,
   connected |-> FALSE, fetched |-> FALSE, wb |-> "none", statusUpdates |-> <<>>]

\* No utility function was called on its own.
NoCall == [fn |-> "none"]

\* ------------------------------------------------------------ small helpers
\* Byte order of the strings that occur in keys and names.
StringOrder == <<"", "ConfigMap", "Secret", "a", "b", "default", "inst", "other", "v1">>
StrRank(x) == CHOOSE i \in DOMAIN StringOrder : StringOrder[i] = x

\* Lexicographic order of two tuples of strings of the same length.
RECURSIVE TupleLess(_, _)
TupleLess(x, y) ==
  IF x = <<>> \/ y = <<>> THEN FALSE
  ELSE IF Head(x) # Head(y) THEN StrRank(Head(x)) < StrRank(Head(y))
  ELSE TupleLess(Tail(x), Tail(y))

\* sort.Strings on the elements of a key set: the ascending sequence.
RECURSIVE SortKeys(_)
SortKeys(S) ==
  IF S = {} THEN <<>>
  ELSE LET m == CHOOSE k \in S : \A o \in S \ {k} : TupleLess(k, o)
       IN <<m>> \o SortKeys(S \ {m})

\* Every identity in the order a listing over the watched kinds returns them:
\* kind by kind in the order of OwnedGVKs, names ascending.
IdSeq ==
  SelectSeq([k \in 1..(Len(OwnedGVKs) * Len(NameSeq)) |->
               [gvk |-> OwnedGVKs[((k - 1) \div Len(NameSeq)) + 1],
                name |-> NameSeq[((k - 1) % Len(NameSeq)) + 1]]],
            LAMBDA id : id \in Ids)

\* --------------------------------------------------------- instance helpers
\* A slip: the prune flag is not looked at.
GetPruneAlways(p) == TRUE

\* Spec.GetPrune(): an unset prune means true.
GetPrune(p) == IF p = "nil" THEN TRUE ELSE p = "true"

\* meta.SetStatusCondition as the DB controller uses it: one condition per type.
DBsetCondition(conds, type, st, reason) ==
  [t \in DOMAIN conds \cup {type} |->
     IF t = type THEN [status |-> st, reason |-> reason] ELSE conds[t]]

\* controllerutil.SetControllerReference: a namespaced owner can only own an
\* object of its own namespace.
SetControllerReferenceOK(ownerNs, objNs) == objNs = ownerNs

\* The object a row renders to, with the namespace defaulted to the instance's.
Rendered(row) ==
  [gvk |-> row.gvk, name |-> row.name,
   ns |-> IF row.ns = "" THEN InstNamespace ELSE row.ns]
IdOf(obj) == [gvk |-> obj.gvk, name |-> obj.name]

\* The annotation that keeps the record a resource was rendered from, and the
\* encoding of its value: json.Marshal of the record, json.Unmarshal back.
OriginalItemAnnotation == "konnektr.io/original-item"
MarshalItem(item) == <<"json", item>>
UnmarshalItem(text) == text[2]

\* A slip: the owner reference is not set.
LiveNoOwner(obj, managedBy, annotations) ==
  [label |-> managedBy, owner |-> "", ns |-> obj.ns, annotations |-> annotations]

\* The live object an apply leaves in the store: the rendered object with its
\* namespace, the managed-by label, the controller owner reference and the
\* annotations it was rendered with.
Live(obj, managedBy, annotations) ==
  [label |-> managedBy, owner |-> InstUID, ns |-> obj.ns, annotations |-> annotations]

\* ------------------------------------------------------------ DB controller
\* A slip: any finalizer counts as the operator's.
hasFinalizerAny(finalizers) == finalizers # {}

\* The finalizer loop of Reconcile: is the operator's finalizer on the instance?
hasFinalizer(finalizers) == DatabaseQueryFinalizer \in finalizers

\* getObjectKey: "group/version/namespace/name".
getObjectKey(obj) == <<obj.gvk.group, obj.gvk.version, obj.ns, obj.name>>
StoredKey(id) == getObjectKey([gvk |-> id.gvk, name |-> id.name, ns |-> InstNamespace])

\* What the DB controller does after a row failed: record the error, go on.
DBRowFailed(acc, what) == [acc EXCEPT !.errors = Append(@, what)]

\* One iteration of the row loop of Reconcile (step 6).
DBApplyRow(acc, row) ==
  IF row.fault = "render" THEN DBRowFailed(acc, "render")
  ELSE IF row.fault = "decode" THEN DBRowFailed(acc, "decode")
  ELSE LET obj == Rendered(row)
       IN IF ~SetControllerReferenceOK(InstNamespace, obj.ns)
            THEN DBRowFailed(acc, "ownerref")
          ELSE IF row.fault = "invalid" THEN DBRowFailed(acc, "apply")
          ELSE [acc EXCEPT
                  !.store = Put(@, IdOf(obj), Live(obj, InstName, {})),
                  !.keys = @ \cup {getObjectKey(obj)},
                  !.applied = @ \cup {IdOf(obj)}]

\* A slip: the row loop ends at the first row that fails.
RECURSIVE DBProcessRowsAbort(_, _)
DBProcessRowsAbort(rows, acc) ==
  IF rows = <<>> THEN acc
  ELSE LET next == DBApplyRow(acc, Head(rows))
       IN IF next.errors # acc.errors THEN next
          ELSE DBProcessRowsAbort(Tail(rows), next)

\* The row loop: rows in order, each on the store the previous one left.
RECURSIVE DBProcessRows(_, _)
DBProcessRows(rows, acc) ==
  IF rows = <<>> THEN acc
  ELSE DBProcessRows(Tail(rows), DBApplyRow(acc, Head(rows)))

\* collectAllChildResources: the labelled objects of every watched kind; a
\* failed list of any kind gives no children and an error.
collectAllChildResources(st, faults) ==
  IF \E g \in GVKSet : <<"list", g>> \in faults
    THEN [err |-> TRUE, items |-> <<>>]
    ELSE [err |-> FALSE,
          items |-> SelectSeq(IdSeq,
                      LAMBDA id : id \in DOMAIN st /\ st[id].label = InstName)]

\* A slip: pruning ends after the first delete it issues.
RECURSIVE pruneFirstStaleOnly(_, _, _, _)
pruneFirstStaleOnly(acc, currentKeys, allChildren, faults) ==
  IF allChildren = <<>> THEN acc
  ELSE LET item == Head(allChildren)
       IN IF StoredKey(item) \in currentKeys
            THEN pruneFirstStaleOnly(acc, currentKeys, Tail(allChildren), faults)
          ELSE IF <<"delete", item>> \in faults
            THEN [acc EXCEPT !.errors = Append(@, "delete"),
                             !.delIssued = @ \cup {item},
                             !.delFailed = @ \cup {item}]
          ELSE [acc EXCEPT !.store = Remove(@, item), !.delIssued = @ \cup {item}]

\* pruneStaleResources: delete the children whose key is not a current key.
RECURSIVE pruneStaleResources(_, _, _, _)
pruneStaleResources(acc, currentKeys, allChildren, faults) ==
  IF allChildren = <<>> THEN acc
  ELSE LET item == Head(allChildren)
           rest == Tail(allChildren)
       IN IF StoredKey(item) \in currentKeys
            THEN pruneStaleResources(acc, currentKeys, rest, faults)
          ELSE IF <<"delete", item>> \in faults
            THEN pruneStaleResources(
                   [acc EXCEPT !.errors = Append(@, "delete"),
                               !.delIssued = @ \cup {item},
                               !.delFailed = @ \cup {item}],
                   currentKeys, rest, faults)
          ELSE pruneStaleResources(
                   [acc EXCEPT !.store = Remove(@, item),
                               !.delIssued = @ \cup {item}],
                   currentKeys, rest, faults)

\* A slip: a failed delete of the finalizer cleanup is only logged.
RECURSIVE DBDeleteChildrenSwallow(_, _, _)
DBDeleteChildrenSwallow(acc, children, faults) ==
  IF children = <<>> THEN acc
  ELSE LET item == Head(children)
       IN IF <<"delete", item>> \in faults
            THEN DBDeleteChildrenSwallow(
                   [acc EXCEPT !.delIssued = @ \cup {item}, !.delFailed = @ \cup {item}],
                   Tail(children), faults)
            ELSE DBDeleteChildrenSwallow(
                   [acc EXCEPT !.store = Remove(@, item), !.delIssued = @ \cup {item}],
                   Tail(children), faults)

\* The finalizer cleanup loop of Reconcile: delete every child, stop at the
\* first delete that fails.
RECURSIVE DBDeleteChildren(_, _, _)
DBDeleteChildren(acc, children, faults) ==
  IF children = <<>> THEN acc
  ELSE LET item == Head(children)
       IN IF <<"delete", item>> \in faults
            THEN [acc EXCEPT !.err = TRUE,
                             !.delIssued = @ \cup {item},
                             !.delFailed = @ \cup {item}]
            ELSE DBDeleteChildren(
                   [acc EXCEPT !.store = Remove(@, item),
                               !.delIssued = @ \cup {item}],
                   Tail(children), faults)

\* A connectionSecretRef: every key field is "" when the spec leaves it out.
SecretRef(name, namespace) ==
  [Name |-> name, Namespace |-> namespace, HostKey |-> "", PortKey |-> "",
   UserKey |-> "", PasswordKey |-> "", DBNameKey |-> "", SSLModeKey |-> ""]

\* The keys getDBConfig reads, with the secretRef field that overrides each.
DBKeys ==
  <<[field |-> "HostKey", key |-> "host"], [field |-> "PortKey", key |-> "port"],
    [field |-> "UserKey", key |-> "username"], [field |-> "PasswordKey", key |-> "password"],
    [field |-> "DBNameKey", key |-> "dbname"], [field |-> "SSLModeKey", key |-> "sslmode"]>>

\* A slip: a key the secret lacks reads as the empty string.
getDBConfigLax(namespace, secretRef, secrets) ==
  LET secretNamespace == IF secretRef.Namespace = "" THEN namespace ELSE secretRef.Namespace
      got == SecretGet(secrets, secretNamespace, secretRef.Name)
      keyOf(n) == IF secretRef[DBKeys[n].field] = "" THEN DBKeys[n].key
                  ELSE secretRef[DBKeys[n].field]
      has(n) == \E p \in got.data : p[1] = keyOf(n)
      valueOf(n) == IF has(n) THEN (CHOOSE p \in got.data : p[1] = keyOf(n))[2] ELSE ""
  IN IF ~got.found THEN [err |-> "notFound", config |-> {}]
     ELSE [err |-> "", config |-> {<<DBKeys[n].key, valueOf(n)>> : n \in DOMAIN DBKeys}]

\* getDBConfig: the connection details from the referenced secret (of the
\* instance's namespace unless the reference names one).  Every key must be
\* in the secret, except the default sslmode key, which reads as "prefer".
getDBConfig(namespace, secretRef, secrets) ==
  LET secretNamespace == IF secretRef.Namespace = "" THEN namespace ELSE secretRef.Namespace
      got == SecretGet(secrets, secretNamespace, secretRef.Name)
      keyOf(n) == IF secretRef[DBKeys[n].field] = "" THEN DBKeys[n].key
                  ELSE secretRef[DBKeys[n].field]
      has(n) == \E p \in got.data : p[1] = keyOf(n)
      optional(n) == keyOf(n) = "sslmode" /\ secretRef.SSLModeKey = ""
      valueOf(n) == IF has(n) THEN (CHOOSE p \in got.data : p[1] = keyOf(n))[2]
                    ELSE "prefer"
  IN IF ~got.found THEN [err |-> "notFound", config |-> {}]
     ELSE IF \E n \in DOMAIN DBKeys : ~has(n) /\ ~optional(n)
       THEN [err |-> "keyNotFound", config |-> {}]
     ELSE [err |-> "", config |-> {<<DBKeys[n].key, valueOf(n)>> : n \in DOMAIN DBKeys}]

\* The connection secret of a DB instance as the cluster has it: complete,
\* absent, or without the password key.
DBSecretSetupNames == {"full", "missing", "lacksPassword"}
DBSecretData ==
  {<<"host", "db.local">>, <<"port", "5432">>, <<"username", "u">>,
   <<"password", "p">>, <<"dbname", "app">>}
DBSecretSetup(name) ==
  [secretRef |-> SecretRef("db-conn", ""),
   secrets |-> CASE name = "missing" -> {}
                 [] name = "lacksPassword" ->
                      {[namespace |-> InstNamespace, name |-> "db-conn",
                        data |-> DBSecretData \ {<<"password", "p">>}]}
                 [] OTHER ->
                      {[namespace |-> InstNamespace, name |-> "db-conn",
                        data |-> DBSecretData]}]

\* What the steps of a DB cycle before the row loop can come to.
DBPre == {"ok", "badInterval", "secretErr", "clientErr", "queryErr", "templateErr"}
\* Of these, the ones the instance's spec decides ("secretErr" is decided by
\* the connection secret, "queryErr" by the database answering or not).
DBConfigs == {"ok", "badInterval", "clientErr", "templateErr"}

\* How the steps of a cycle before the row loop can end for an instance: the
\* pollInterval is parsed first, then the connection secret is read, then the
\* client is made, the query executed and the template parsed.
DBPreOf(i) ==
  IF i.config = "badInterval" THEN {"badInterval"}
  ELSE IF getDBConfig(InstNamespace, DBSecretSetup(i.creds).secretRef,
                      DBSecretSetup(i.creds).secrets).err # ""
    THEN {"secretErr"}
  ELSE IF i.config = "ok" THEN {"ok", "queryErr"}
  ELSE {i.config}

\* Reconcile, deletion path (deletion timestamp set).
DBReconcileDeletion(faults) ==
  IF hasFinalizer(inst.finalizers)
    THEN LET coll == collectAllChildResources(store, faults)
             del == DBDeleteChildren(
                      [store |-> store, err |-> FALSE, delIssued |-> {}, delFailed |-> {}],
                      coll.items, faults)
             updated == ~coll.err /\ ~del.err /\ <<"update">> \notin faults
             fin == IF updated THEN inst.finalizers \ {DatabaseQueryFinalizer}
                    ELSE inst.finalizers
         IN /\ FaultsHit(faults, del.delIssued, ~coll.err /\ ~del.err)
            /\ store' = (IF coll.err THEN store ELSE del.store)
            /\ inst' = [inst EXCEPT !.finalizers = fin,
                                    !.phase = IF fin = {} THEN "gone" ELSE @]
            /\ cyc' = [NoCycle EXCEPT
                         !.kind = "deletion", !.listed = TRUE,
                         !.listErr = coll.err,
                         !.delIssued = del.delIssued, !.delFailed = del.delFailed,
                         !.finalizerRemoved = updated,
                         !.err = ~updated]
            /\ UNCHANGED <<ctl, userFinalizer, status, source>>
    ELSE /\ faults = {}
         /\ cyc' = [NoCycle EXCEPT !.kind = "deletion"]
         /\ UNCHANGED <<ctl, userFinalizer, inst, status, store, source>>

\* Reconcile, a cycle that ends before the row loop.
DBReconcileEarly(pre) ==
  LET c0 == status.conditions
      conds ==
        CASE pre = "badInterval" ->
               DBsetCondition(c0, ConditionReconciled, "False", "InvalidSpec")
          [] pre = "secretErr" ->
               DBsetCondition(
                 DBsetCondition(c0, ConditionDBConnected, "False", "SecretError"),
                 ConditionReconciled, "False", "DBConnectionFailed")
          [] pre = "clientErr" ->
               DBsetCondition(
                 DBsetCondition(c0, ConditionDBConnected, "False", "DBClientError"),
                 ConditionReconciled, "False", "DBConnectionFailed")
          [] pre = "queryErr" ->
               DBsetCondition(
                 DBsetCondition(c0, ConditionDBConnected, "True", "Connected"),
                 ConditionReconciled, "False", "QueryFailed")
          [] pre = "templateErr" ->
               DBsetCondition(
                 DBsetCondition(c0, ConditionDBConnected, "True", "Connected"),
                 ConditionReconciled, "False", "TemplateError")
      rq == CASE pre = "secretErr" -> "1m"
              [] pre = "queryErr" -> "poll"
              [] OTHER -> "none"
  IN /\ status' = [status EXCEPT !.conditions = conds,
                                 !.observedGeneration = inst.generation]
     /\ cyc' = [NoCycle EXCEPT !.kind = "normal", !.pre = pre,
                               !.requeue = rq, !.statusWritten = TRUE,
                               !.connected = pre \in {"clientErr", "queryErr", "templateErr"},
                               !.fetched = pre \in {"queryErr", "templateErr"},
                               !.statusUpdates = <<conds>>]
     /\ UNCHANGED <<ctl, userFinalizer, inst, store, source>>

\* Reconcile, a cycle that reaches the row loop (steps 6 to 9).
DBReconcileRows(faults) ==
  LET rows == DBProcessRows(source,
                [store |-> store, keys |-> {}, applied |-> {}, errors |-> <<>>])
      coll == collectAllChildResources(rows.store, faults)
      none == [store |-> rows.store, errors |-> <<>>, delIssued |-> {}, delFailed |-> {}]
      pruned == IF GetPrune(inst.prune)
                  THEN pruneStaleResources(none, rows.keys, coll.items, faults)
                  ELSE none
      finalErrors == rows.errors \o pruned.errors
      c1 == DBsetCondition(status.conditions, ConditionDBConnected, "True", "Connected")
      conds == IF finalErrors # <<>>
                 THEN DBsetCondition(c1, ConditionReconciled, "False", "ProcessingError")
                 ELSE DBsetCondition(c1, ConditionReconciled, "True", "Success")
  IN /\ FaultsHit(faults, pruned.delIssued, FALSE)
     /\ store' = pruned.store
     /\ status' = [status EXCEPT !.conditions = conds,
                                 !.managedResources = SortKeys(rows.keys),
                                 !.observedGeneration = inst.generation]
     /\ cyc' = [NoCycle EXCEPT
                  !.kind = "normal", !.listed = TRUE,
                  !.listErr = coll.err,
                  !.applied = rows.applied, !.errors = finalErrors,
                  !.delIssued = pruned.delIssued, !.delFailed = pruned.delFailed,
                  !.err = (finalErrors # <<>>), !.requeue = "poll",
                  !.statusWritten = TRUE,
                  !.connected = TRUE, !.fetched = TRUE,
                  !.statusUpdates = <<conds>>]
     /\ UNCHANGED <<ctl, userFinalizer, inst, source>>

\* DatabaseQueryResourceReconciler.Reconcile.
DBReconcile ==
  /\ UNCHANGED unitVars
  /\ ctl = "db"
  /\ \E pre \in DBPreOf(inst), faults \in FaultSets :
       IF inst.phase = "gone"
         THEN /\ pre # "queryErr" /\ faults = {}
              /\ cyc' = [NoCycle EXCEPT !.kind = "notfound"]
              /\ UNCHANGED <<ctl, userFinalizer, inst, status, store, source>>
       ELSE IF inst.phase = "deleting"
         THEN pre # "queryErr" /\ DBReconcileDeletion(faults)
       ELSE IF pre # "ok"
         THEN faults = {} /\ DBReconcileEarly(pre)
       ELSE DBReconcileRows(faults)

\* ----------------------------------------------------------- AuthResolver
\* An authenticationRef: every key field is "" when the spec leaves it out.
NoKeys ==
  [UsernameKey |-> "", PasswordKey |-> "", TokenKey |-> "", APIKeyKey |-> "",
   APIKeyHeader |-> "", ClientIDKey |-> "", ClientSecretKey |-> "",
   TokenURL |-> "", Scopes |-> ""]
AuthRef(name, namespace, type) ==
  [Name |-> name, Namespace |-> namespace, Type |-> type, Keys |-> NoKeys]

\* A slip: the default key wins whenever the secret has it.
getValueDefaultFirst(data, specifiedKey, defaultKey) ==
  LET key == IF \E p \in data : p[1] = defaultKey THEN defaultKey
             ELSE IF specifiedKey = "" THEN defaultKey ELSE specifiedKey
  IN IF \E p \in data : p[1] = key
       THEN (CHOOSE p \in data : p[1] = key)[2]
       ELSE ""

\* getValue: the value under the specified key, or under the default key when
\* none is specified; "" when the secret has no such key.
getValue(data, specifiedKey, defaultKey) ==
  LET key == IF specifiedKey = "" THEN defaultKey ELSE specifiedKey
  IN IF \E p \in data : p[1] = key
       THEN (CHOOSE p \in data : p[1] = key)[2]
       ELSE ""

\* The switch of ResolveAuthenticationConfig on the type, for a secret that was
\* found; oauth2Checked says whether the oauth2 case rejects an empty clientId,
\* clientSecret or tokenUrl.  A bundle is {} (nil) or one ResolvedAuthConfig.
AuthSwitch(authRef, data, oauth2Checked) ==
  LET k == authRef.Keys
      ok(cfg) == [err |-> "", bundle |-> {[AuthType |-> authRef.Type, AuthConfig |-> cfg]}]
  IN CASE authRef.Type = "basic" ->
            ok([username |-> getValue(data, k.UsernameKey, "username"),
                password |-> getValue(data, k.PasswordKey, "password")])
       [] authRef.Type = "bearer" ->
            ok([token |-> getValue(data, k.TokenKey, "token")])
       [] authRef.Type = "apikey" ->
            ok([apikey |-> getValue(data, k.APIKeyKey, "apikey"),
                header |-> IF k.APIKeyHeader = "" THEN "X-API-Key" ELSE k.APIKeyHeader])
       [] authRef.Type = "oauth2" ->
            LET clientID == getValue(data, k.ClientIDKey, "clientId")
                clientSecret == getValue(data, k.ClientSecretKey, "clientSecret")
            IN IF oauth2Checked /\ (clientID = "" \/ clientSecret = "" \/ k.TokenURL = "")
                 THEN [err |-> "oauth2Incomplete", bundle |-> {}]
                 ELSE ok([clientId |-> clientID, clientSecret |-> clientSecret,
                          tokenUrl |-> k.TokenURL, scopes |-> k.Scopes])
       [] OTHER -> [err |-> "unsupported", bundle |-> {}]

\* A slip: oauth2 is resolved whatever is missing.
ResolveAuthenticationConfigLax(namespace, authRef, secrets) ==
  LET secretNamespace == IF authRef.Namespace = "" THEN namespace ELSE authRef.Namespace
      got == SecretGet(secrets, secretNamespace, authRef.Name)
  IN IF ~got.found THEN [err |-> "notFound", bundle |-> {}]
     ELSE AuthSwitch(authRef, got.data, FALSE)

\* ResolveAuthenticationConfig: the secret is read from authRef.Namespace, or
\* from the instance's namespace when that is empty; err is "" on success.
ResolveAuthenticationConfig(namespace, authRef, secrets) ==
  LET secretNamespace == IF authRef.Namespace = "" THEN namespace ELSE authRef.Namespace
      got == SecretGet(secrets, secretNamespace, authRef.Name)
  IN IF ~got.found THEN [err |-> "notFound", bundle |-> {}]
     ELSE AuthSwitch(authRef, got.data, TRUE)

\* The spec.http.authenticationRef of an HTTP instance with the secrets of the
\* cluster it runs in: no reference at all, a reference to a secret that does
\* not exist, one of a type that is not supported, and oauth2 references whose
\* secret lacks the clientSecret or whose spec lacks the tokenUrl.
AuthSetupNames ==
  {"none", "secretMissing", "unsupportedType", "oauth2NoSecret", "oauth2NoTokenUrl"}
OAuthData == {<<"clientId", "id-1">>, <<"clientSecret", "s3cret">>}
OneSecret(data) == {[namespace |-> InstNamespace, name |-> "creds", data |-> data]}
AuthSetup(name) ==
  CASE name = "secretMissing" ->
         [has |-> TRUE, authRef |-> AuthRef("creds", "", "basic"), secrets |-> {}]
    [] name = "unsupportedType" ->
         [has |-> TRUE, authRef |-> AuthRef("creds", "", "digest"),
          secrets |-> OneSecret({<<"username", "u">>})]
    [] name = "oauth2NoSecret" ->
         [has |-> TRUE,
          authRef |-> [AuthRef("creds", "", "oauth2") EXCEPT
                         !.Keys.TokenURL = "https://auth/token"],
          secrets |-> OneSecret({<<"clientId", "id-1">>})]
    [] name = "oauth2NoTokenUrl" ->
         [has |-> TRUE, authRef |-> AuthRef("creds", "", "oauth2"),
          secrets |-> OneSecret(OAuthData)]
    [] OTHER -> [has |-> FALSE, authRef |-> AuthRef("", "", ""), secrets |-> {}]

\* reconcileResources, "Set authentication config if provided": "" when the
\* spec has no authenticationRef or the resolution succeeds.
HTTPAuthError(auth) ==
  IF ~AuthSetup(auth).has THEN ""
  ELSE ResolveAuthenticationConfig(InstNamespace, AuthSetup(auth).authRef,
                                   AuthSetup(auth).secrets).err

\* ---------------------------------------------------------- HTTP controller
\* HTTPQueryResourceReconciler.setCondition: one condition per type.
HTTPsetCondition(conds, type, st, reason) ==
  [t \in DOMAIN conds \cup {type} |->
     IF t = type THEN [status |-> st, reason |-> reason] ELSE conds[t]]

\* A slip: a template that does not parse is not noticed.
ProcessHTTPResponseAnyTemplate(templateOK, items) ==
  LET res == SelectSeq(items, LAMBDA r : r.fault # "render" /\ r.fault # "decode")
  IN [err |-> (res = <<>>), resources |-> res, failedCount |-> Len(items) - Len(res)]

\* ProcessHTTPResponseToResources: the items that render and parse, in order;
\* an error when no resource came out (also for an empty response).
ProcessHTTPResponseToResources(templateOK, items) ==
  LET res == SelectSeq(items,
               LAMBDA r : templateOK /\ r.fault # "render" /\ r.fault # "decode")
  IN [err |-> (res = <<>>), resources |-> res, failedCount |-> Len(items) - Len(res)]

\* The key cleanupUnmanagedResources compares: "apiVersion/kind/name".
APIVersion(gvk) == IF gvk.group = "" THEN <<gvk.version>> ELSE <<gvk.group, gvk.version>>
HTTPKey(gvk, name) == <<APIVersion(gvk), gvk.kind, name>>

\* A slip: the create branch is missing, an absent object is left absent.
applyResourceUpdateOnly(st, resource) ==
  LET obj == Rendered(resource)
  IN IF ~SetControllerReferenceOK(InstNamespace, obj.ns)
       THEN [err |-> TRUE, store |-> st]
     ELSE IF resource.fault = "invalid"
       THEN [err |-> TRUE, store |-> st]
     ELSE IF IdOf(obj) \notin DOMAIN st
       THEN [err |-> FALSE, store |-> st]
     ELSE [err |-> FALSE,
           store |-> Put(st, IdOf(obj),
                         Live(obj, HTTPControllerName,
                              {<<OriginalItemAnnotation, MarshalItem(resource)>>}))]

\* applyResource: namespace default, owner reference, label, then create or
\* update (the live object is replaced by the rendered one, which carries the
\* original-item annotation ProcessHTTPResponseToResources gave it).
applyResource(st, resource) ==
  LET obj == Rendered(resource)
  IN IF ~SetControllerReferenceOK(InstNamespace, obj.ns)
       THEN [err |-> TRUE, store |-> st]
     ELSE IF resource.fault = "invalid"
       THEN [err |-> TRUE, store |-> st]
     ELSE [err |-> FALSE,
           store |-> Put(st, IdOf(obj),
                         Live(obj, HTTPControllerName,
                              {<<OriginalItemAnnotation, MarshalItem(resource)>>}))]

\* The apply loop of reconcileResources: it returns at the first failed apply.
RECURSIVE HTTPApplyAll(_, _)
HTTPApplyAll(resources, acc) ==
  IF resources = <<>> THEN acc
  ELSE LET r == applyResource(acc.store, Head(resources))
       IN IF r.err THEN [acc EXCEPT !.err = TRUE]
          ELSE HTTPApplyAll(Tail(resources),
                 [acc EXCEPT !.store = r.store,
                             !.applied = @ \cup {IdOf(Head(resources))}])

\* A slip: every object with the controller's label counts as the instance's.
HTTPLabelled(st, id) ==
  /\ id \in DOMAIN st
  /\ st[id].label = HTTPControllerName

\* The objects a list of one kind returns to the HTTP controller that carry an
\* owner reference with the instance's UID.
HTTPOwned(st, id) ==
  /\ id \in DOMAIN st
  /\ st[id].label = HTTPControllerName
  /\ st[id].owner = InstUID

\* deleteOwnedResources: kind by kind, delete every owned object; a failed list
\* skips the kind, a failed delete is logged.  It always returns nil.
RECURSIVE deleteOwnedResources(_, _, _)
deleteOwnedResources(acc, ids, faults) ==
  IF ids = <<>> THEN acc
  ELSE LET item == Head(ids)
           rest == Tail(ids)
       IN IF <<"list", item.gvk>> \in faults
            THEN deleteOwnedResources([acc EXCEPT !.listErr = TRUE], rest, faults)
          ELSE IF ~HTTPOwned(acc.store, item)
            THEN deleteOwnedResources(acc, rest, faults)
          ELSE IF <<"delete", item>> \in faults
            THEN deleteOwnedResources(
                   [acc EXCEPT !.delIssued = @ \cup {item}, !.delFailed = @ \cup {item}],
                   rest, faults)
          ELSE deleteOwnedResources(
                   [acc EXCEPT !.store = Remove(@, item), !.delIssued = @ \cup {item}],
                   rest, faults)

\* A slip: the cleanup does not look at the current resources.
cleanupAllOwned(acc, currentResourceNames, ids, faults) ==
  deleteOwnedResources(acc, ids, faults)

\* cleanupUnmanagedResources: kind by kind, delete the owned objects whose key
\* is not among the current resources; a failed list skips the kind, a failed
\* delete is logged.  It always returns nil.
RECURSIVE cleanupUnmanagedResources(_, _, _, _)
cleanupUnmanagedResources(acc, currentResourceNames, ids, faults) ==
  IF ids = <<>> THEN acc
  ELSE LET item == Head(ids)
           rest == Tail(ids)
       IN IF <<"list", item.gvk>> \in faults
            THEN cleanupUnmanagedResources(
                   [acc EXCEPT !.listErr = TRUE], currentResourceNames, rest, faults)
          ELSE IF ~HTTPOwned(acc.store, item)
                  \/ HTTPKey(item.gvk, item.name) \in currentResourceNames
            THEN cleanupUnmanagedResources(acc, currentResourceNames, rest, faults)
          ELSE IF <<"delete", item>> \in faults
            THEN cleanupUnmanagedResources(
                   [acc EXCEPT !.delIssued = @ \cup {item}, !.delFailed = @ \cup {item}],
                   currentResourceNames, rest, faults)
          ELSE cleanupUnmanagedResources(
                   [acc EXCEPT !.store = Remove(@, item), !.delIssued = @ \cup {item}],
                   currentResourceNames, rest, faults)

\* sort.Strings on the names of the resources (duplicates stay).
RECURSIVE SortNames(_)
SortNames(names) ==
  IF names = <<>> THEN <<>>
  ELSE LET i == CHOOSE k \in DOMAIN names :
                  \A o \in DOMAIN names : StrRank(names[k]) <= StrRank(names[o])
       IN <<names[i]>> \o
          SortNames([k \in 1..(Len(names) - 1) |-> IF k < i THEN names[k] ELSE names[k + 1]])

\* What the steps of an HTTP cycle before the apply loop can come to.
HTTPPre == {"ok", "clientErr", "authErr", "fetchErr", "templateErr", "badInterval"}
\* Of these, the ones the instance's spec and secrets decide.
HTTPConfigs == {"ok", "clientErr", "templateErr", "badInterval"}

\* How the steps of a cycle before the apply loop can end for an instance: the
\* client is made, the credentials are resolved, the request is executed, the
\* items are rendered ("badInterval" is looked at after the whole cycle).
HTTPPreOf(i) ==
  IF i.config = "clientErr" THEN {"clientErr"}
  ELSE IF HTTPAuthError(i.creds) # "" THEN {"authErr"}
  ELSE IF i.config = "ok" THEN {"ok", "fetchErr"}
  ELSE {i.config}

\* spec.statusUpdate and how its calls end in a cycle: not configured, every
\* callback sent, the resolution of its authenticationRef failed, or a callback
\* (or the read of the resource before it) failed.
WriteBacks == {"none", "ok", "authErr", "callErr"}

\* updateStatusForChildResources, as far as the instance's status goes: it sets
\* the Reconciled condition and persists the status with Status().Update.
HTTPupdateStatusForChildResources(conds, wb) ==
  IF wb = "ok"
    THEN HTTPsetCondition(conds, ConditionReconciled, "True", "StatusUpdateSuccess")
    ELSE HTTPsetCondition(conds, ConditionReconciled, "False", "StatusUpdateFailed")

\* Reconcile, the HTTP client cannot be created.
HTTPClientFailed ==
  /\ status' = [status EXCEPT !.conditions =
                  HTTPsetCondition(@, ConditionHTTPConnected, "False", "HTTPClientError")]
  /\ cyc' = [NoCycle EXCEPT !.kind = "normal", !.pre = "clientErr",
                            !.requeue = "30s", !.statusWritten = TRUE,
                            !.connected = TRUE,
                            !.statusUpdates = <<status'.conditions>>]
  /\ UNCHANGED <<ctl, userFinalizer, inst, store, source>>

\* Reconcile from the HTTPConnected condition on, with reconcileResources.
reconcileResources(pre, faults) ==
  LET proc == ProcessHTTPResponseToResources(pre # "templateErr", source)
      early == pre \in {"authErr", "fetchErr"} \/ proc.err
      app == IF early THEN [store |-> store, applied |-> {}, err |-> FALSE]
             ELSE HTTPApplyAll(proc.resources, [store |-> store, applied |-> {}, err |-> FALSE])
      none == [store |-> app.store, listErr |-> FALSE, delIssued |-> {}, delFailed |-> {}]
      doPrune == ~early /\ ~app.err /\ inst.prune = "true"
      pruned == IF doPrune
                  THEN cleanupUnmanagedResources(none,
                         {HTTPKey(proc.resources[i].gvk, proc.resources[i].name) :
                            i \in DOMAIN proc.resources},
                         IdSeq, faults)
                  ELSE none
      err == early \/ app.err
      c1 == HTTPsetCondition(status.conditions, ConditionHTTPConnected, "True",
                             "HTTPClientConnected")
      c2(wb) == IF wb = "none" THEN c1 ELSE HTTPupdateStatusForChildResources(c1, wb)
      conds(wb) ==
        IF err
          THEN HTTPsetCondition(c1, ConditionReconciled, "False", "ReconciliationError")
          ELSE HTTPsetCondition(c2(wb), ConditionReconciled, "True",
                                "ReconciliationSuccessful")
      names == [i \in DOMAIN proc.resources |-> proc.resources[i].name]
  IN /\ (~doPrune => faults = {})
     /\ FaultsHit(faults, pruned.delIssued, FALSE)
     /\ store' = pruned.store
     /\ UNCHANGED <<ctl, userFinalizer, inst, source>>
     /\ \E wb \in (IF err THEN {"none"} ELSE WriteBacks) :
          /\ Cardinality(faults) + (IF wb \in {"authErr", "callErr"} THEN 1 ELSE 0)
               <= MaxFaults
          /\ status' = [status EXCEPT
                          !.conditions = conds(wb),
                          !.managedResources = IF err THEN @ ELSE SortNames(names)]
          /\ cyc' = [NoCycle EXCEPT
                       !.kind = "normal",
                       !.pre = pre,
                       !.listed = doPrune, !.listErr = pruned.listErr,
                       !.applied = app.applied,
                       !.errors = IF proc.err /\ ~(pre \in {"authErr", "fetchErr"})
                                    THEN <<"allfailed">>
                                    ELSE IF app.err THEN <<"apply">> ELSE <<>>,
                       !.delIssued = pruned.delIssued, !.delFailed = pruned.delFailed,
                       !.err = err /\ inst.config # "badInterval",
                       !.requeue = IF inst.config = "badInterval" THEN "5m" ELSE "poll",
                       !.statusWritten = TRUE,
                       !.connected = TRUE, !.fetched = (pre # "authErr"),
                       !.wb = wb,
                       !.statusUpdates = IF wb = "none" THEN <<conds(wb)>>
                                          ELSE <<c2(wb), conds(wb)>>]

\* A slip: the deletion timestamp is not looked at.
handleDeletionAsCycle(faults) == reconcileResources("ok", faults)

\* handleDeletion.
handleDeletion(faults) ==
  LET del == deleteOwnedResources(
               [store |-> store, listErr |-> FALSE, delIssued |-> {}, delFailed |-> {}],
               IdSeq, faults)
      updated == <<"update">> \notin faults
      fin == IF updated THEN inst.finalizers \ {HTTPQueryFinalizer} ELSE inst.finalizers
  IN /\ FaultsHit(faults, del.delIssued, TRUE)
     /\ store' = del.store
     /\ inst' = [inst EXCEPT !.finalizers = fin,
                             !.phase = IF fin = {} THEN "gone" ELSE @]
     /\ cyc' = [NoCycle EXCEPT
                  !.kind = "deletion", !.listed = TRUE, !.listErr = del.listErr,
                  !.delIssued = del.delIssued, !.delFailed = del.delFailed,
                  !.finalizerRemoved = updated /\ HTTPQueryFinalizer \in inst.finalizers,
                  !.err = ~updated]
     /\ UNCHANGED <<ctl, userFinalizer, status, source>>

\* A slip: the cycle goes on without the finalizer.
HTTPAddFinalizerAndGo(faults) == reconcileResources("ok", faults)

\* Reconcile, the finalizer is missing: add it and return.
HTTPAddFinalizer(faults) ==
  /\ faults \subseteq {<<"update">>}
  /\ inst' = (IF faults = {} THEN [inst EXCEPT !.finalizers = @ \cup {HTTPQueryFinalizer}]
              ELSE inst)
  /\ cyc' = [NoCycle EXCEPT !.kind = "addFinalizer", !.err = (faults # {})]
  /\ UNCHANGED <<ctl, userFinalizer, status, store, source>>

\* HTTPQueryResourceReconciler.Reconcile.
HTTPReconcile ==
  /\ UNCHANGED unitVars
  /\ ctl = "http"
  /\ \E pre \in HTTPPreOf(inst), faults \in FaultSets :
       IF inst.phase = "gone"
         THEN /\ pre # "fetchErr" /\ faults = {}
              /\ cyc' = [NoCycle EXCEPT !.kind = "notfound"]
              /\ UNCHANGED <<ctl, userFinalizer, inst, status, store, source>>
       ELSE IF inst.phase = "deleting"
         THEN pre # "fetchErr" /\ handleDeletion(faults)
       ELSE IF HTTPQueryFinalizer \notin inst.finalizers
         THEN pre # "fetchErr" /\ HTTPAddFinalizer(faults)
       ELSE IF pre = "clientErr"
         THEN faults = {} /\ HTTPClientFailed
       ELSE reconcileResources(pre, faults)

\* ------------------------------------------------------------- environment
\* The external source returns another record, or one record less.
SourceAdd ==
  /\ UNCHANGED unitVars
  /\ inst.phase = "active"
  /\ Len(source) < MaxRows
  /\ \E r \in RowSet :
       /\ \A i \in DOMAIN source : IdOf(source[i]) # IdOf(r)
       /\ source' = Append(source, r)
  /\ cyc' = NoCycle
  /\ UNCHANGED <<ctl, userFinalizer, inst, status, store>>

SourceRemove ==
  /\ UNCHANGED unitVars
  /\ inst.phase = "active"
  /\ \E i \in DOMAIN source :
       source' = [k \in 1..(Len(source) - 1) |-> IF k < i THEN source[k] ELSE source[k + 1]]
  /\ cyc' = NoCycle
  /\ UNCHANGED <<ctl, userFinalizer, inst, status, store>>

\* The user deletes the instance (kubectl delete), in the background or in the
\* foreground.  Without a finalizer the API server removes it at once; with a
\* finalizer it sets the deletion timestamp.  The source is not followed any
\* further: no Reconcile of a deleted instance reads it.
UserDelete ==
  /\ UNCHANGED unitVars
  /\ inst.phase = "active"
  /\ \E fg \in BOOLEAN :
       LET fin == inst.finalizers \cup (IF fg THEN {ForegroundFinalizer} ELSE {})
       IN inst' = [inst EXCEPT !.finalizers = fin,
                               !.phase = IF fin = {} THEN "gone" ELSE "deleting"]
  /\ source' = <<>>
  /\ cyc' = NoCycle
  /\ UNCHANGED <<ctl, userFinalizer, status, store>>

\* The finalizer of the controller at work.
OwnFinalizer(c) == IF c = "db" THEN DatabaseQueryFinalizer ELSE HTTPQueryFinalizer

\* The instance as the user creates it: with or without the operator's
\* finalizer (userFinalizer remembers which), with prune unset, true or false.
\* creds names the secret setup of the instance; the setups that fail go with
\* a spec that is otherwise fine or has a bad pollInterval.
Init ==
  /\ ctl \in {"db", "http"}
  /\ inst \in [phase : {"active"},
               finalizers : {{}, {OwnFinalizer(ctl)}},
               prune : {"nil", "true", "false"},
               config : IF ctl = "db" THEN DBConfigs ELSE HTTPConfigs,
               creds : IF ctl = "db" THEN DBSecretSetupNames ELSE AuthSetupNames,
               generation : {1}]
  /\ inst.creds \in {"full", "none"} \/ inst.config \in {"ok", "badInterval"}
  /\ userFinalizer = (inst.finalizers # {})
  /\ status = [conditions |-> <<>>, managedResources |-> <<>>, observedGeneration |-> 0]
  /\ store = <<>>
  /\ source = <<>>
  /\ cyc = NoCycle
  /\ call = NoCall /\ conditions = <<>> /\ now = 0

Next ==
  \/ DBReconcile
  \/ HTTPReconcile
  \/ SourceAdd
  \/ SourceRemove
  \/ UserDelete

Spec == Init /\ [][Next]_vars

\* ------------------------------------------------------- shared namespace
\* The namespace also holds objects the instance does not own: for the DB
\* controller an object somebody else gave the label managed-by=<instance
\* name> (no owner reference), for the HTTP controller an object of a second
\* HTTPQueryResource (same label value, owner reference with another UID).
\* Reconciles of one controller run one at a time (MaxConcurrentReconciles is
\* left at 1), so the other instance's applies and deletes are steps of their own.
OtherUID == "uid-2"
Foreign(c) ==
  IF c = "db"
    THEN [label |-> InstName, owner |-> "", ns |-> InstNamespace, annotations |-> {}]
    ELSE [label |-> HTTPControllerName, owner |-> OtherUID, ns |-> InstNamespace,
          annotations |-> {}]

\* Somebody else creates an object, or replaces the live one by an update.
OtherApply ==
  /\ UNCHANGED unitVars
  /\ \E id \in Ids :
       /\ IF id \in DOMAIN store THEN store[id] # Foreign(ctl) ELSE TRUE
       /\ store' = Put(store, id, Foreign(ctl))
  /\ cyc' = NoCycle
  /\ UNCHANGED <<ctl, userFinalizer, inst, status, source>>

\* Somebody else deletes an object of their own.
OtherDelete ==
  /\ UNCHANGED unitVars
  /\ \E id \in Ids :
       /\ IF id \in DOMAIN store THEN store[id] = Foreign(ctl) ELSE FALSE
       /\ store' = Remove(store, id)
  /\ cyc' = NoCycle
  /\ UNCHANGED <<ctl, userFinalizer, inst, status, source>>

\* An instance with a spec that is in order, in a namespace it shares.
InitShared ==
  /\ Init
  /\ inst.config = "ok"
  /\ inst.creds \in {"full", "none"}
  /\ inst.finalizers # {}
  /\ inst.prune = "true"

NextShared == Next \/ OtherApply \/ OtherDelete

SpecShared == InitShared /\ [][NextShared]_vars

\* ------------------------------------------------------------ self-healing
\* An outside actor (kubectl delete, another controller) deletes one of the
\* instance's resources.  The delete event of an owned object does not pass
\* the event filter, so no Reconcile is queued by it and the report of the
\* last Reconcile stands.
OutsideDelete ==
  /\ UNCHANGED unitVars
  /\ inst.phase = "active"
  /\ \E id \in DOMAIN store : store' = Remove(store, id)
  /\ UNCHANGED <<ctl, userFinalizer, inst, status, source, cyc>>

\* Is a Reconcile of the instance queued?  The create event of the instance
\* queues the first one; after that the result of the last Reconcile does: a
\* RequeueAfter, or an error (the work queue retries it).
Requeued == cyc.kind = "none" \/ cyc.requeue # "none" \/ cyc.err

HealDBReconcile == Requeued /\ DBReconcile
HealHTTPReconcile == Requeued /\ HTTPReconcile

\* What the source returns all along: one to MaxRows records of distinct
\* resources.
HealSources ==
  {s \in UNION {[1..n -> RowSet] : n \in 1..MaxRows} :
     \A i, j \in DOMAIN s : i # j => IdOf(s[i]) # IdOf(s[j])}

\* An instance with the operator's finalizer and a configuration its cycles
\* can succeed with, and a source that keeps returning the same records.
InitHeal ==
  /\ ctl \in {"db", "http"}
  /\ inst \in [phase : {"active"},
               finalizers : {{OwnFinalizer(ctl)}},
               prune : {"true", "false"},
               config : {"ok"},
               creds : IF ctl = "db" THEN {"full"} ELSE {"none"},
               generation : {1}]
  /\ userFinalizer = TRUE
  /\ status = [conditions |-> <<>>, managedResources |-> <<>>, observedGeneration |-> 0]
  /\ store = <<>>
  /\ source \in HealSources
  /\ cyc = NoCycle
  /\ call = NoCall /\ conditions = <<>> /\ now = 0

NextHeal ==
  \/ HealDBReconcile
  \/ HealHTTPReconcile
  \/ OutsideDelete

\* Every queued Reconcile is run in the end: the manager's workers take the
\* items of the work queue, the delayed ones when their delay is over.
SpecHeal ==
  InitHeal /\ [][NextHeal]_vars /\ WF_vars(HealDBReconcile) /\ WF_vars(HealHTTPReconcile)

\* ------------------------------------------------------ unit specifications
\* The utility functions called on their own, as their tests call them.  The
\* engine stands still: no instance is reconciled.
EngineIdle ==
  /\ ctl = "none"
  /\ userFinalizer = FALSE
  /\ inst = [phase |-> "gone", finalizers |-> {}, prune |-> "nil", config |-> "ok",
             creds |-> "none", generation |-> 1]
  /\ status = [conditions |-> <<>>, managedResources |-> <<>>, observedGeneration |-> 0]
  /\ store = <<>>
  /\ source = <<>>
  /\ cyc = NoCycle

\* The override a reference can give for each of its optional fields.
CustomOf ==
  [UsernameKey |-> "user", PasswordKey |-> "pass", TokenKey |-> "tok", APIKeyKey |-> "key",
   APIKeyHeader |-> "X-Auth", ClientIDKey |-> "cid", ClientSecretKey |-> "csec",
   TokenURL |-> "https://auth/token", Scopes |-> "read"]
\* The optional fields each type reads.
FieldsOf(type) ==
  CASE type = "basic" -> {"UsernameKey", "PasswordKey"}
    [] type = "bearer" -> {"TokenKey"}
    [] type = "apikey" -> {"APIKeyKey", "APIKeyHeader"}
    [] type = "oauth2" -> {"ClientIDKey", "ClientSecretKey", "TokenURL", "Scopes"}
    [] OTHER -> {}
AuthTypes == {"basic", "bearer", "apikey", "oauth2", "digest"}
\* The references to the secret "creds": in the instance's namespace or in
\* another one, of every type, with any of the fields of its type overridden.
AuthRefs ==
  {[Name |-> "creds", Namespace |-> n, Type |-> t,
    Keys |-> [f \in DOMAIN NoKeys |-> IF f \in S THEN CustomOf[f] ELSE ""]] :
     n \in {"", OtherNamespace}, t \in AuthTypes, S \in SUBSET DOMAIN NoKeys}
AuthRefsOfType == {r \in AuthRefs : \A f \in DOMAIN NoKeys : r.Keys[f] # "" => f \in FieldsOf(r.Type)}

\* The secret "creds" of a namespace: absent, or holding the default keys, the
\* override keys, or both.  A value says which namespace and key it is of.
DefaultKeys == {"username", "password", "token", "apikey", "clientId", "clientSecret"}
OverrideKeys == {"user", "pass", "tok", "key", "cid", "csec"}
SecretData(ns, keys) == {<<k, ns \o ":" \o k>> : k \in keys}
SecretChoices(ns) ==
  {{}} \cup {{[namespace |-> ns, name |-> "creds", data |-> SecretData(ns, keys)]} :
              keys \in {DefaultKeys, OverrideKeys, DefaultKeys \cup OverrideKeys}}
SecretSets == {a \cup b : a \in SecretChoices(InstNamespace), b \in SecretChoices(OtherNamespace)}

\* A call of ResolveAuthenticationConfig for an instance of InstNamespace that
\* is about to be made, and the call returning.
ResolveInputs ==
  {[fn |-> "ResolveAuthenticationConfig", namespace |-> InstNamespace,
    authRef |-> authRef, secrets |-> secrets, done |-> FALSE, out |-> <<>>] :
     authRef \in AuthRefsOfType, secrets \in SecretSets}
ResolveCall ==
  /\ call.fn = "ResolveAuthenticationConfig" /\ ~call.done
  /\ call' = [call EXCEPT
                !.done = TRUE,
                !.out = ResolveAuthenticationConfig(call.namespace, call.authRef,
                                                    call.secrets)]
  /\ UNCHANGED <<engineVars, conditions, now>>

\* ------------------------------------------------------------- ParseGVKs
\* A string is the sequence of its characters.  The characters of a pattern:
\* a letter, the separators and the blank.
PatternChars == {"a", "/", ";", " "}
Patterns == UNION {[1..n -> PatternChars] : n \in 0..MaxPatternLen}

\* strings.Split(s, sep) for a one-character sep: the pieces between the seps.
RECURSIVE Split(_, _)
Split(s, sep) ==
  IF \A i \in DOMAIN s : s[i] # sep THEN <<s>>
  ELSE LET i == CHOOSE k \in DOMAIN s : s[k] = sep /\ \A j \in 1..(k - 1) : s[j] # sep
       IN <<SubSeq(s, 1, i - 1)>> \o Split(SubSeq(s, i + 1, Len(s)), sep)

\* strings.TrimSpace: without the blanks at both ends.
RECURSIVE TrimSpace(_)
TrimSpace(s) ==
  IF s = <<>> THEN s
  ELSE IF Head(s) = " " THEN TrimSpace(Tail(s))
  ELSE IF s[Len(s)] = " " THEN TrimSpace(SubSeq(s, 1, Len(s) - 1))
  ELSE s

\* The body of the loop of ParseGVKs for one entry that is already trimmed or
\* not: the GVKs it adds (none or one).
ParseEntry(entry) ==
  IF entry = <<>> THEN <<>>
  ELSE LET parts == Split(entry, "/")
           group == IF Len(parts) = 3 THEN parts[1] ELSE <<>>
           version == IF Len(parts) = 2 THEN parts[1]
                      ELSE IF Len(parts) = 3 THEN parts[2] ELSE <<>>
           kind == IF Len(parts) = 2 THEN parts[2]
                   ELSE IF Len(parts) = 3 THEN parts[3] ELSE <<>>
       IN IF version = <<>> \/ kind = <<>> THEN <<>>
          ELSE <<[Group |-> group, Version |-> version, Kind |-> kind]>>

RECURSIVE ParseEntries(_, _)
ParseEntries(entries, trim) ==
  IF entries = <<>> THEN <<>>
  ELSE ParseEntry(IF trim THEN TrimSpace(Head(entries)) ELSE Head(entries))
         \o ParseEntries(Tail(entries), trim)

\* A slip: the entries are not trimmed.
ParseGVKsUntrimmed(pattern) ==
  LET gvks == ParseEntries(Split(pattern, ";"), FALSE)
  IN [err |-> gvks = <<>>, gvks |-> gvks]

\* ParseGVKs: the GVKs of the valid entries, in order; an error (and nil) when
\* there is none.
ParseGVKs(pattern) ==
  LET gvks == ParseEntries(Split(pattern, ";"), TRUE)
  IN [err |-> gvks = <<>>, gvks |-> gvks]

\* A call of ParseGVKs that is about to be made, and the call returning.
ParseInputs ==
  {[fn |-> "ParseGVKs", pattern |-> pattern, done |-> FALSE, out |-> <<>>] :
     pattern \in Patterns}
ParseCall ==
  /\ call.fn = "ParseGVKs" /\ ~call.done
  /\ call' = [call EXCEPT !.done = TRUE, !.out = ParseGVKs(call.pattern)]
  /\ UNCHANGED <<engineVars, conditions, now>>

\* ----------------------------------------------------------- setCondition
\* status.conditions as the slice it is: a sequence of
\* [Type, Status, Reason, LastTransitionTime], in the order they were added.
IndexOfType(conds, type) ==
  IF \E i \in DOMAIN conds : conds[i].Type = type
    THEN CHOOSE i \in DOMAIN conds :
           conds[i].Type = type /\ \A j \in 1..(i - 1) : conds[j].Type # type
    ELSE 0

\* A slip: the condition found is replaced whatever its status.
setConditionReplace(conds, type, st, reason, t) ==
  LET condition == [Type |-> type, Status |-> st, Reason |-> reason, LastTransitionTime |-> t]
      i == IndexOfType(conds, type)
  IN IF i = 0 THEN Append(conds, condition) ELSE [conds EXCEPT ![i] = condition]

\* HTTPQueryResourceReconciler.setCondition at time t: the first condition of
\* the type is replaced when the status differs and gets the new reason (and
\* message) otherwise; without one the new condition is appended.
setCondition(conds, type, st, reason, t) ==
  LET condition == [Type |-> type, Status |-> st, Reason |-> reason, LastTransitionTime |-> t]
      i == IndexOfType(conds, type)
  IN IF i = 0 THEN Append(conds, condition)
     ELSE IF conds[i].Status # st THEN [conds EXCEPT ![i] = condition]
     ELSE [conds EXCEPT ![i].Reason = reason]

\* meta.SetStatusCondition with a condition stamped t, as the DB controller's
\* setCondition calls it: a missing condition is appended; an existing one
\* takes the new status and time when the status differs, and the new reason
\* (and message) in either case.
SetStatusCondition(conds, type, st, reason, t) ==
  LET i == IndexOfType(conds, type)
  IN IF i = 0
       THEN Append(conds, [Type |-> type, Status |-> st, Reason |-> reason,
                           LastTransitionTime |-> t])
     ELSE LET moved == IF conds[i].Status # st
                         THEN [conds[i] EXCEPT !.Status = st, !.LastTransitionTime = t]
                         ELSE conds[i]
          IN [conds EXCEPT ![i] = [moved EXCEPT !.Reason = reason]]

\* The condition types, statuses and reasons the calls are made with.
ConditionTypes(controller) ==
  IF controller = "db" THEN {ConditionReconciled, ConditionDBConnected}
  ELSE {ConditionReconciled, ConditionHTTPConnected}
ConditionStatuses == {"True", "False"}
ConditionReasons == {"Success", "ProcessingError"}

\* The condition of a type before a call: none, or the one found.
PriorOf(conds, type) ==
  IF IndexOfType(conds, type) = 0 THEN {} ELSE {conds[IndexOfType(conds, type)]}

\* One setCondition call of the instance's controller at the present time.
SetConditionCall ==
  /\ \E type \in ConditionTypes(call.controller), st \in ConditionStatuses,
        reason \in ConditionReasons :
       /\ conditions' = IF call.controller = "db"
                          THEN SetStatusCondition(conditions, type, st, reason, now)
                          ELSE setCondition(conditions, type, st, reason, now)
       /\ call' = [fn |-> "setCondition", controller |-> call.controller,
                   type |-> type, status |-> st, reason |-> reason,
                   prior |-> PriorOf(conditions, type)]
  /\ UNCHANGED <<engineVars, now>>

\* Time passes between two calls.
Tick ==
  /\ now < MaxClock
  /\ now' = now + 1
  /\ UNCHANGED <<engineVars, call, conditions>>

InitConditions ==
  /\ EngineIdle
  /\ call \in {[fn |-> "setCondition", controller |-> c, type |-> "", status |-> "",
                 reason |-> "", prior |-> {}] : c \in {"db", "http"}}
  /\ conditions = <<>>
  /\ now = 0
NextConditions == SetConditionCall \/ Tick
SpecConditions == InitConditions /\ [][NextConditions]_vars

InitAuth == EngineIdle /\ call \in ResolveInputs /\ conditions = <<>> /\ now = 0
SpecAuth == InitAuth /\ [][ResolveCall]_vars

InitGVK == EngineIdle /\ call \in ParseInputs /\ conditions = <<>> /\ now = 0
SpecGVK == InitGVK /\ [][ParseCall]_vars

\* ------------------------------------------------------------ event filter
\* The watch on the owned kinds: an event on a child resource reaches the
\* owner's Reconcile only if every predicate given to Owns lets it pass.
\* What the predicates read of an object: resourceVersion, generation, labels,
\* annotations (status is what an update may change besides).
ObjectVersions ==
  [resourceVersion : {"1", "2"}, generation : {1, 2}, labels : {"l1", "l2"},
   annotations : {"a1", "a2"}, status : {"s1", "s2"}]
EventTypes == {"create", "update", "delete", "generic"}

\* statusChangePredicate.
statusChangePredicate(e) == e.type \in {"update", "create"}
\* predicate.ResourceVersionChangedPredicate and the three like it: each
\* filters update events only.
ResourceVersionChangedPredicate(e) ==
  e.type = "update" => e.new.resourceVersion # e.old.resourceVersion
GenerationChangedPredicate(e) ==
  e.type = "update" => e.new.generation # e.old.generation
AnnotationChangedPredicate(e) ==
  e.type = "update" => e.new.annotations # e.old.annotations
LabelChangedPredicate(e) ==
  e.type = "update" => e.new.labels # e.old.labels

\* builder.WithPredicates: the event is handled when all predicates agree.
OwnsPredicates(e) ==
  /\ statusChangePredicate(e)
  /\ ResourceVersionChangedPredicate(e)
  /\ GenerationChangedPredicate(e)
  /\ AnnotationChangedPredicate(e)
  /\ LabelChangedPredicate(e)

\* The events of a child resource: the old and the new object of an update
\* (other events carry one object, here both are the same).
FilterInputs ==
  {[fn |-> "OwnsPredicates", controller |-> c,
    event |-> [type |-> t, old |-> o, new |-> n], done |-> FALSE, out |-> FALSE] :
     c \in {"db", "http"}, t \in EventTypes,
     o \in {v \in ObjectVersions : v.resourceVersion = "1"},
     n \in ObjectVersions}
FilterCall ==
  /\ call.fn = "OwnsPredicates" /\ ~call.done
  /\ call.event.type # "update" => call.event.new = call.event.old
  /\ call' = [call EXCEPT !.done = TRUE, !.out = OwnsPredicates(call.event)]
  /\ UNCHANGED <<engineVars, conditions, now>>

InitEvents == EngineIdle /\ call \in FilterInputs /\ conditions = <<>> /\ now = 0
SpecEvents == InitEvents /\ [][FilterCall]_vars

\* ------------------------------------------------------- database clients
\* The database clients of one DB Reconcile, step by step: which clients are
\* open (connected and not closed) and which Close calls are deferred, in
\* Reconcile and in updateStatusForChildResources.  A deferred call runs when
\* its function returns.  The plan of the call says how each step ends:
\* early is the step before the row loop that fails ("none": none does),
\* template is whether spec.statusUpdateQueryTemplate is set, children are the
\* listed children with what happens in the write-back of each.
ClientPlanEarly == {"none", "badInterval", "secretErr", "clientErr", "queryErr", "templateErr"}
ChildKinds == {"Deployment", "ConfigMap"}
ChildOutcomes == {"ok", "clientErr", "parseErr", "renderErr", "execErr"}
ChildPlans ==
  UNION {[1..n -> [kind : ChildKinds, outcome : ChildOutcomes]] : n \in 0..MaxChildren}
\* The client of the main query is 0, the client of the i-th child is i.
ClientInputs ==
  {[fn |-> "Reconcile", early |-> e, template |-> t, children |-> c,
    pc |-> "start", i |-> 1, open |-> {}, deferred |-> {}, deferredWB |-> {},
    everOpen |-> {}] :
     e \in ClientPlanEarly, t \in BOOLEAN, c \in ChildPlans}

\* A slip: only the first Close of a function is kept.
DeferCloseOnce(deferred, client) == IF deferred = {} THEN {client} ELSE deferred

\* defer dbClient.Close(ctx).
DeferClose(deferred, client) == deferred \cup {client}

\* Reconcile up to getOrCreateDBClient: an invalid pollInterval or a secret
\* error returns before it; a client that cannot connect is not returned.
ClientConnect ==
  /\ call.fn = "Reconcile" /\ call.pc = "start"
  /\ call' = IF call.early \in {"badInterval", "secretErr", "clientErr"}
                THEN [call EXCEPT !.pc = "return"]
                ELSE [call EXCEPT !.pc = "query",
                                  !.open = @ \cup {0},
                                  !.everOpen = @ \cup {0},
                                  !.deferred = DeferClose(@, 0)]
  /\ UNCHANGED <<engineVars, conditions, now>>

\* The query, the template parse and the row loop: a failed query or template
\* returns, row errors do not.
ClientQueryAndRows ==
  /\ call.fn = "Reconcile" /\ call.pc = "query"
  /\ call' = IF call.early \in {"queryErr", "templateErr"}
                THEN [call EXCEPT !.pc = "return"]
                ELSE [call EXCEPT !.pc = "writeback"]
  /\ UNCHANGED <<engineVars, conditions, now>>

\* updateStatusForChildResources, one child: a Deployment gets a client of
\* its own, closed by a deferred call, whatever comes after.
ClientWriteBackChild ==
  /\ call.fn = "Reconcile" /\ call.pc = "writeback"
  /\ call.template /\ call.i <= Len(call.children)
  /\ LET child == call.children[call.i]
     IN call' = IF child.kind = "Deployment" /\ child.outcome # "clientErr"
                  THEN [call EXCEPT !.i = @ + 1,
                                    !.open = @ \cup {call.i},
                                    !.everOpen = @ \cup {call.i},
                                    !.deferredWB = DeferClose(@, call.i)]
                  ELSE [call EXCEPT !.i = @ + 1]
  /\ UNCHANGED <<engineVars, conditions, now>>

\* updateStatusForChildResources returns: its deferred calls run.
ClientWriteBackReturn ==
  /\ call.fn = "Reconcile" /\ call.pc = "writeback"
  /\ ~call.template \/ call.i > Len(call.children)
  /\ call' = [call EXCEPT !.pc = "return",
                           !.open = @ \ call.deferredWB,
                           !.deferredWB = {}]
  /\ UNCHANGED <<engineVars, conditions, now>>

\* Reconcile returns: its deferred calls run.
ClientReturn ==
  /\ call.fn = "Reconcile" /\ call.pc = "return"
  /\ call' = [call EXCEPT !.pc = "done",
                           !.open = @ \ call.deferred,
                           !.deferred = {}]
  /\ UNCHANGED <<engineVars, conditions, now>>

InitClients == EngineIdle /\ call \in ClientInputs /\ conditions = <<>> /\ now = 0
NextClients ==
  \/ ClientConnect
  \/ ClientQueryAndRows
  \/ ClientWriteBackChild
  \/ ClientWriteBackReturn
  \/ ClientReturn
SpecClients == InitClients /\ [][NextClients]_vars

\* ================================================================== claims
ReconciledTrue ==
  /\ ConditionReconciled \in DOMAIN status.conditions
  /\ status.conditions[ConditionReconciled].status = "True"

\* The live objects of the watched kinds that carry the DB instance's label.
DBLabelled(st) == {id \in DOMAIN st : st[id].label = InstName}
\* The live objects of the watched kinds the HTTP instance owns.
HTTPOwnedSet(st) == {id \in DOMAIN st : HTTPOwned(st, id)}

\* A record whose own steps (render, decode, owner reference, apply) succeed.
RowOK(r) == r.fault = "none" /\ Rendered(r).ns = InstNamespace

\* C1: DB controller: after a cycle with prune enabled that ends with
\* Reconciled=True, the live labelled resources of the watched kinds are exactly
\* the resources applied in that cycle.
C1_LiveSetIsAppliedSet ==
  (ctl = "db" /\ cyc.kind = "normal" /\ cyc.pre = "ok" /\ GetPrune(inst.prune)
     /\ ReconciledTrue)
    => DBLabelled(store) = cyc.applied

\* C2: in both controllers, a normal cycle of an instance with prune=false
\* deletes nothing: every live resource is still live after it.
C2_NoDeleteWhilePruneFalse ==
  [][(inst.phase = "active" /\ inst.prune = "false" /\ cyc'.kind = "normal")
       => (cyc'.delIssued = {} /\ DOMAIN store \subseteq DOMAIN store')]_vars

C2_Witness ==
  /\ inst.prune = "false" /\ cyc.kind = "normal" /\ cyc.pre = "ok" /\ ~cyc.err
  /\ \E id \in DOMAIN store : id \notin cyc.applied

\* C3: HTTP controller: after a cycle with prune=true that ends with
\* Reconciled=True, every live resource the instance owns was produced by
\* that cycle.
C3_NoStaleOwnedAfterPrune ==
  (ctl = "http" /\ cyc.kind = "normal" /\ inst.prune = "true" /\ ReconciledTrue)
    => HTTPOwnedSet(store) \subseteq cyc.applied

C5_FinalizerAfterCleanup ==
  [][(ctl = "db" /\ inst.phase = "deleting" /\ DatabaseQueryFinalizer \in inst.finalizers
        /\ cyc'.kind = "deletion")
       => /\ (DatabaseQueryFinalizer \notin inst'.finalizers)
               => (DBLabelled(store') = {} /\ cyc'.delFailed = {} /\ ~cyc'.listErr
                     /\ cyc'.delIssued = DBLabelled(store))
          /\ (cyc'.listErr \/ cyc'.delFailed # {})
               => (cyc'.err /\ DatabaseQueryFinalizer \in inst'.finalizers)]_vars

C5_Witness ==
  /\ ctl = "db" /\ cyc.kind = "deletion" /\ cyc.finalizerRemoved
  /\ cyc.delIssued # {} /\ DBLabelled(store) = {}

\* C6: HTTP controller, deletion path: a failed listing or a failed delete
\* makes the reconcile return an error and leaves the finalizer in place.
C6_CleanupErrorKeepsFinalizer ==
  (ctl = "http" /\ cyc.kind = "deletion" /\ (cyc.listErr \/ cyc.delFailed # {}))
    => (cyc.err /\ HTTPQueryFinalizer \in inst.finalizers)

\* C7: DB controller: a reconcile of an instance that is being deleted and does
\* not carry the operator's finalizer lists nothing, deletes nothing, writes no
\* status and returns neither an error nor a requeue.
C7_NoFinalizerNoCascade ==
  [][(ctl = "db" /\ inst.phase = "deleting" /\ DatabaseQueryFinalizer \notin inst.finalizers
        /\ cyc'.kind # "none")
       => /\ store' = store /\ status' = status /\ inst' = inst
          /\ ~cyc'.listed /\ cyc'.delIssued = {} /\ ~cyc'.statusWritten
          /\ ~cyc'.err /\ cyc'.requeue = "none"]_vars

C7_Witness ==
  /\ ctl = "db" /\ inst.phase = "deleting" /\ DatabaseQueryFinalizer \notin inst.finalizers
  /\ cyc.kind = "deletion" /\ DBLabelled(store) # {}

\* C8: HTTP controller: the deletion of an instance the user created without the
\* operator's finalizer deletes none of the resources it manages.
C8_NoCascadeWithoutUserFinalizer ==
  (ctl = "http" /\ ~userFinalizer /\ cyc.kind = "deletion") => cyc.delIssued = {}

\* C9: DB controller: in a cycle that reaches the row loop, every row whose own
\* steps succeed is applied, wherever the failing rows are.
C9_FailedRowsIsolated ==
  (ctl = "db" /\ cyc.kind = "normal" /\ cyc.pre = "ok")
    => \A i \in DOMAIN source :
         RowOK(source[i])
           => (IdOf(source[i]) \in cyc.applied /\ IdOf(source[i]) \in DBLabelled(store))

C9_Witness ==
  /\ ctl = "db" /\ cyc.kind = "normal" /\ cyc.pre = "ok"
  /\ \E i, j \in DOMAIN source :
       i < j /\ ~RowOK(source[i]) /\ RowOK(source[j]) /\ IdOf(source[j]) \in cyc.applied

\* C10: HTTP controller: in a cycle that reaches the apply loop, every rendered
\* resource whose own apply succeeds is applied, also after a failed apply.
C10_FailedApplyIsolated ==
  (ctl = "http" /\ cyc.kind = "normal" /\ cyc.pre \in {"ok", "badInterval"})
    => \A i \in DOMAIN source : RowOK(source[i]) => IdOf(source[i]) \in cyc.applied

\* A record that ProcessHTTPResponseToResources skips: its rendering or the
\* parsing of what it renders fails.
ItemFails(r) == r.fault \in {"render", "decode"}

\* C11: HTTP controller: in a cycle with a valid template where some but not
\* all records fail to render or parse (and every other record can be applied),
\* the failing records are skipped, the others are applied, and the cycle ends
\* with Reconciled=False and an aggregated error.
C11_PartialRenderFailureReported ==
  (/\ ctl = "http" /\ cyc.kind = "normal" /\ cyc.pre = "ok"
   /\ \E i \in DOMAIN source : ItemFails(source[i])
   /\ \E i \in DOMAIN source : ~ItemFails(source[i])
   /\ \A i \in DOMAIN source : ~ItemFails(source[i]) => RowOK(source[i]))
    => /\ \A i \in DOMAIN source :
            IdOf(source[i]) \in cyc.applied <=> ~ItemFails(source[i])
       /\ ~ReconciledTrue
       /\ cyc.errors # <<>>

\* C12: HTTP controller: a cycle of an instance whose authenticationRef names a
\* secret that does not exist persists Reconciled=False with the reason
\* SecretNotFound.
C12_MissingSecretReason ==
  (ctl = "http" /\ cyc.kind = "normal" /\ cyc.pre = "authErr"
     /\ inst.creds = "secretMissing")
    => /\ cyc.statusUpdates # <<>>
       /\ LET last == cyc.statusUpdates[Len(cyc.statusUpdates)]
          IN /\ ConditionReconciled \in DOMAIN last
             /\ last[ConditionReconciled].status = "False"
             /\ last[ConditionReconciled].reason = "SecretNotFound"

\* The authentication types ResolveAuthenticationConfig knows.
SupportedAuthTypes == {"basic", "bearer", "apikey", "oauth2"}
\* The value a secret's data holds under a key, "" when it holds none.
DataAt(data, key) ==
  IF \E p \in data : p[1] = key THEN (CHOOSE p \in data : p[1] = key)[2] ELSE ""
\* The cases in which credential resolution has to fail, told from the
\* reference and the secrets alone: the secret is missing, the type is not
\* supported, or oauth2 with an empty clientId, clientSecret or tokenUrl.
ResolutionMustFail(namespace, authRef, secrets) ==
  LET ns == IF authRef.Namespace = "" THEN namespace ELSE authRef.Namespace
      found == {x \in secrets : x.namespace = ns /\ x.name = authRef.Name}
      data == UNION {x.data : x \in found}
      keyOr(field, default) == IF authRef.Keys[field] = "" THEN default
                               ELSE authRef.Keys[field]
  IN \/ found = {}
     \/ authRef.Type \notin SupportedAuthTypes
     \/ /\ authRef.Type = "oauth2"
        /\ \/ DataAt(data, keyOr("ClientIDKey", "clientId")) = ""
           \/ DataAt(data, keyOr("ClientSecretKey", "clientSecret")) = ""
           \/ authRef.Keys.TokenURL = ""

\* C13: whenever credential resolution has to fail, ResolveAuthenticationConfig
\* returns an error and no bundle, and the HTTP cycle executes no request,
\* applies nothing, lists and deletes nothing and leaves the store as it was.
C13_NoFetchWithoutCredentials ==
  [][(/\ ctl = "http" /\ inst.phase = "active" /\ cyc'.kind = "normal"
      /\ AuthSetup(inst.creds).has
      /\ ResolutionMustFail(InstNamespace, AuthSetup(inst.creds).authRef,
                            AuthSetup(inst.creds).secrets))
       => /\ LET out == ResolveAuthenticationConfig(InstNamespace,
                          AuthSetup(inst.creds).authRef, AuthSetup(inst.creds).secrets)
             IN out.err # "" /\ out.bundle = {}
          /\ ~cyc'.fetched /\ cyc'.applied = {}
          /\ ~cyc'.listed /\ cyc'.delIssued = {}
          /\ store' = store]_vars

C13_Witness ==
  /\ ctl = "http" /\ cyc.kind = "normal" /\ cyc.pre = "authErr"
  /\ inst.creds = "oauth2NoTokenUrl" /\ inst.prune = "true"
  /\ \E i \in DOMAIN source : RowOK(source[i])
  /\ ~cyc.fetched /\ cyc.applied = {}

\* C14: ResolveAuthenticationConfig reads the secret of authRef.Namespace, or
\* of the instance's namespace when that is empty; every credential is the
\* value under the override key when one is given and under the default key
\* otherwise; the apikey header is the override or X-API-Key; the bundle's
\* type is authRef.Type.
C14_ResolvedFromRightSecretAndKeys ==
  (call.fn = "ResolveAuthenticationConfig" /\ call.done)
    => LET ref == call.authRef
           ns == IF ref.Namespace # "" THEN ref.Namespace ELSE call.namespace
           found == {x \in call.secrets : x.namespace = ns /\ x.name = ref.Name}
           val(field, default) ==
             LET key == IF ref.Keys[field] # "" THEN ref.Keys[field] ELSE default
             IN IF \E x \in found : \E q \in x.data : q[1] = key
                  THEN ns \o ":" \o key ELSE ""
           want ==
             CASE ref.Type = "basic" ->
                    [username |-> val("UsernameKey", "username"),
                     password |-> val("PasswordKey", "password")]
               [] ref.Type = "bearer" -> [token |-> val("TokenKey", "token")]
               [] ref.Type = "apikey" ->
                    [apikey |-> val("APIKeyKey", "apikey"),
                     header |-> IF ref.Keys.APIKeyHeader # "" THEN ref.Keys.APIKeyHeader
                                ELSE "X-API-Key"]
               [] OTHER ->
                    [clientId |-> val("ClientIDKey", "clientId"),
                     clientSecret |-> val("ClientSecretKey", "clientSecret"),
                     tokenUrl |-> ref.Keys.TokenURL, scopes |-> ref.Keys.Scopes]
       IN /\ (call.out.err = "notFound") <=> (found = {})
          /\ call.out.err = ""
               => call.out.bundle = {[AuthType |-> ref.Type, AuthConfig |-> want]}

C14_Witness ==
  /\ call.fn = "ResolveAuthenticationConfig" /\ call.done /\ call.out.err = ""
  /\ call.authRef.Namespace = OtherNamespace /\ call.authRef.Type = "apikey"
  /\ call.authRef.Keys.APIKeyKey = "key" /\ call.authRef.Keys.APIKeyHeader = ""
  /\ Cardinality(call.secrets) = 2
  /\ \E b \in call.out.bundle :
       b.AuthConfig.apikey = "other:key" /\ b.AuthConfig.header = "X-API-Key"

\* The entries of a pattern: the maximal runs without ";".
EntryBounds(pattern) ==
  {<<a, b>> \in (1..(Len(pattern) + 1)) \X (0..Len(pattern)) :
     /\ a <= b + 1
     /\ \A i \in a..b : pattern[i] # ";"
     /\ (a = 1 \/ pattern[a - 1] = ";")
     /\ (b = Len(pattern) \/ pattern[b + 1] = ";")}
\* An entry without the blanks around it: its first to its last non-blank.
Trimmed(e) ==
  IF \A i \in DOMAIN e : e[i] = " " THEN <<>>
  ELSE LET a == CHOOSE i \in DOMAIN e : e[i] # " " /\ \A j \in 1..(i - 1) : e[j] = " "
           b == CHOOSE i \in DOMAIN e : e[i] # " " /\ \A j \in (i + 1)..Len(e) : e[j] = " "
       IN SubSeq(e, a, b)
Slashes(e) == {i \in DOMAIN e : e[i] = "/"}
\* The GVKs a trimmed entry stands for: version/kind or group/version/kind with
\* a non-empty version and kind; none for every other entry.
GVKsOfEntry(e) ==
  {[Group |-> <<>>, Version |-> SubSeq(e, 1, i - 1), Kind |-> SubSeq(e, i + 1, Len(e))] :
     i \in {k \in Slashes(e) : Slashes(e) = {k} /\ 1 < k /\ k < Len(e)}}
  \cup
  {[Group |-> SubSeq(e, 1, p[1] - 1), Version |-> SubSeq(e, p[1] + 1, p[2] - 1),
    Kind |-> SubSeq(e, p[2] + 1, Len(e))] :
     p \in {q \in Slashes(e) \X Slashes(e) :
              Slashes(e) = {q[1], q[2]} /\ q[1] + 1 < q[2] /\ q[2] < Len(e)}}

\* C15: ParseGVKs returns, in input order, exactly the GVKs of the entries that
\* after trimming are version/kind or group/version/kind with a non-empty
\* version and kind, and an error exactly when there is no such entry.
C15_ParseGVKsAcceptsExactlyValid ==
  (call.fn = "ParseGVKs" /\ call.done)
    => LET bounds == EntryBounds(call.pattern)
           valid == {p \in bounds :
                       GVKsOfEntry(Trimmed(SubSeq(call.pattern, p[1], p[2]))) # {}}
           gvkAt(p) == CHOOSE g \in GVKsOfEntry(Trimmed(SubSeq(call.pattern, p[1], p[2]))) : TRUE
           out == call.out.gvks
       IN /\ Len(out) = Cardinality(valid)
          /\ \A p \in valid :
               out[Cardinality({q \in valid : q[1] <= p[1]})] = gvkAt(p)
          /\ call.out.err <=> (valid = {})

C15_Witness ==
  /\ call.fn = "ParseGVKs" /\ call.done /\ ~call.out.err
  /\ call.pattern = <<" ", "a", "/", "a", ";", "/", "a">>
  /\ call.out.gvks = <<[Group |-> <<>>, Version |-> <<"a">>, Kind |-> <<"a">>]>>

\* C16: after any sequence of setCondition calls, status.conditions holds at
\* most one condition per type, and no step changes the lastTransitionTime of a
\* condition without changing its status.
C16_OneConditionPerTypeStableTime ==
  [][/\ \A i, j \in DOMAIN conditions' :
          conditions'[i].Type = conditions'[j].Type => i = j
     /\ \A i \in DOMAIN conditions : \A j \in DOMAIN conditions' :
          (/\ conditions[i].Type = conditions'[j].Type
           /\ conditions[i].LastTransitionTime # conditions'[j].LastTransitionTime)
            => conditions[i].Status # conditions'[j].Status]_vars

C16_Witness ==
  /\ call.fn = "setCondition" /\ Len(conditions) = 2
  /\ \E p \in call.prior :
       /\ p.Status = call.status /\ p.Reason # call.reason
       /\ p.LastTransitionTime < now
       /\ \E i \in DOMAIN conditions :
            /\ conditions[i].Type = call.type
            /\ conditions[i].Reason = call.reason
            /\ conditions[i].LastTransitionTime = p.LastTransitionTime

\* C17: DB controller: a cycle in which every row was rendered and applied
\* without error and a prune deletion failed does not set Reconciled to False.
C17_PruneErrorsNonFatal ==
  (/\ ctl = "db" /\ cyc.kind = "normal" /\ cyc.pre = "ok"
   /\ \A i \in DOMAIN source : RowOK(source[i])
   /\ cyc.delFailed # {})
    => /\ ConditionReconciled \in DOMAIN status.conditions
       /\ status.conditions[ConditionReconciled].status # "False"

\* C18: HTTP controller: a failed status write-back (credentials or call)
\* never leaves a persisted Reconciled condition with status False.
C18_WriteBackFailureKeepsReconciled ==
  (/\ ctl = "http" /\ cyc.kind = "normal"
   /\ cyc.wb \in {"authErr", "callErr"})
    => \A k \in DOMAIN cyc.statusUpdates :
         /\ ConditionReconciled \in DOMAIN cyc.statusUpdates[k]
         /\ cyc.statusUpdates[k][ConditionReconciled].status # "False"

\* C19: a pollInterval that does not parse stops the cycle before any fetch,
\* apply or prune, and Reconcile returns no error and no requeue.
C19_InvalidPollIntervalStopsCycle ==
  (cyc.kind = "normal" /\ inst.config = "badInterval")
    => /\ ~cyc.fetched
       /\ cyc.applied = {}
       /\ cyc.delIssued = {}
       /\ ~cyc.err
       /\ cyc.requeue = "none"

\* The connection secret of the instance is missing or lacks a required key.
RequiredDBKeys == {"host", "port", "username", "password", "dbname"}
SecretBroken ==
  LET setup == DBSecretSetup(inst.creds)
  IN ~\E s \in setup.secrets :
        /\ s.namespace = InstNamespace
        /\ s.name = setup.secretRef.Name
        /\ \A k \in RequiredDBKeys : \E p \in s.data : p[1] = k

\* What a DB cycle stopped by the connection secret leaves behind.
SecretErrorOutcome ==
  /\ store' = store
  /\ ConditionDBConnected \in DOMAIN status'.conditions
  /\ status'.conditions[ConditionDBConnected].status = "False"
  /\ ConditionReconciled \in DOMAIN status'.conditions
  /\ status'.conditions[ConditionReconciled].status = "False"
  /\ ~cyc'.connected
  /\ ~cyc'.fetched
  /\ cyc'.applied = {}
  /\ cyc'.delIssued = {}
  /\ cyc'.requeue = "1m"

\* C20 as stated: DB controller: a cycle of an instance whose connection
\* secret is missing or lacks a required key sets DBConnected=False and
\* Reconciled=False, connects, queries, applies and prunes nothing, and
\* requeues after 1 minute, whatever the pollInterval.
C20_SecretErrorAnyPollInterval ==
  [][(ctl = "db" /\ cyc'.kind = "normal" /\ SecretBroken)
       => SecretErrorOutcome]_vars

\* C20 amended: the same for an instance whose pollInterval is a valid
\* duration (an invalid one ends the cycle before the secret is read).
C20_SecretErrorRequeuesOneMinute ==
  [][(/\ ctl = "db" /\ cyc'.kind = "normal" /\ SecretBroken
      /\ inst.config # "badInterval")
       => SecretErrorOutcome]_vars

C20_Witness ==
  /\ ctl = "db" /\ cyc.kind = "normal"
  /\ inst.creds = "lacksPassword" /\ inst.config = "ok"
  /\ source # <<>>
  /\ cyc.requeue = "1m"

\* A DB cycle that failed for a reason other than an invalid pollInterval.
DBCycleFailed ==
  /\ ctl = "db" /\ cyc.kind = "normal"
  /\ cyc.pre # "badInterval"
  /\ cyc.pre # "ok" \/ cyc.errors # <<>>

\* C21: DB controller: every cycle that fails for a reason other than an
\* invalid pollInterval returns a result that schedules a later cycle (a
\* RequeueAfter or an error).
C21_FailedCycleIsRescheduled ==
  DBCycleFailed => (cyc.requeue # "none" \/ cyc.err)

\* C22: in both controllers, a cycle whose fetch fails or whose template does
\* not parse creates, updates and deletes no managed resource and persists a
\* status with Reconciled=False.
C22_FetchOrTemplateFailureShortCircuits ==
  [][(cyc'.kind = "normal" /\ cyc'.pre \in {"queryErr", "fetchErr", "templateErr"})
       => /\ store' = store
          /\ cyc'.applied = {} /\ cyc'.delIssued = {}
          /\ cyc'.statusWritten
          /\ cyc'.statusUpdates # <<>>
          /\ \A k \in DOMAIN cyc'.statusUpdates :
               /\ ConditionReconciled \in DOMAIN cyc'.statusUpdates[k]
               /\ cyc'.statusUpdates[k][ConditionReconciled].status = "False"
          /\ status'.conditions = cyc'.statusUpdates[Len(cyc'.statusUpdates)]]_vars

C22_Witness ==
  /\ ctl = "http" /\ cyc.kind = "normal" /\ cyc.pre = "templateErr"
  /\ \E i \in DOMAIN source : source[i].fault = "none"
  /\ status.conditions[ConditionReconciled].status = "False"

\* An HTTP cycle that succeeded.
HTTPCycleSucceeded ==
  /\ ctl = "http" /\ cyc.kind = "normal" /\ cyc.errors = <<>>
  /\ cyc.pre \in {"ok", "badInterval"}
  /\ ReconciledTrue

\* C23: HTTP controller: after a successful cycle status.managedResources is
\* sorted and has one distinct entry per resource produced in the cycle.
C23_ManagedResourcesDistinctPerIdentity ==
  HTTPCycleSucceeded
    => /\ Len(status.managedResources) = Cardinality(cyc.applied)
       /\ \A i, j \in DOMAIN status.managedResources :
            i # j => status.managedResources[i] # status.managedResources[j]

\* C24: DB controller: a cycle that fails leaves status.observedGeneration
\* unchanged.
C24_ObservedGenerationOnlyOnSuccess ==
  [][(/\ ctl = "db" /\ cyc'.kind = "normal"
      /\ cyc'.pre # "ok" \/ cyc'.errors # <<>>)
       => status'.observedGeneration = status.observedGeneration]_vars

\* C25: HTTP controller: after a cycle whose fetch failed, the persisted
\* HTTPConnected condition is False.
C25_HTTPConnectedFollowsFetch ==
  (ctl = "http" /\ cyc.kind = "normal" /\ cyc.pre = "fetchErr")
    => /\ ConditionHTTPConnected \in DOMAIN status.conditions
       /\ status.conditions[ConditionHTTPConnected].status = "False"

\* The record of the source that rendered the live object id in this cycle.
ProducedBy(id, i) ==
  /\ i \in DOMAIN source
  /\ source[i].fault = "none"
  /\ IdOf(Rendered(source[i])) = id

\* C26: every resource a cycle of either controller materialized carries the
\* original-record annotation, and its value decodes to the record that
\* produced the resource.
C26_OriginalRecordAnnotation ==
  cyc.kind = "normal"
    => \A id \in cyc.applied :
         /\ id \in DOMAIN store
         /\ \E i \in DOMAIN source :
              /\ ProducedBy(id, i)
              /\ \E a \in store[id].annotations :
                   /\ a[1] = OriginalItemAnnotation
                   /\ UnmarshalItem(a[2]) = source[i]

\* C27: HTTP controller: a successful cycle of an instance whose spec.prune
\* is unset prunes as for prune=true: with no failed list or delete, no owned
\* resource that the cycle did not produce is left.
C27_UnsetPruneMeansPrune ==
  (/\ HTTPCycleSucceeded
   /\ inst.prune = "nil"
   /\ ~cyc.listErr /\ cyc.delFailed = {})
    => \A id \in DOMAIN store : HTTPOwned(store, id) => id \in cyc.applied

\* The value of the managed-by label of the controller at work.
ManagedByValue == IF ctl = "db" THEN InstName ELSE HTTPControllerName

\* C28: every resource a Reconcile of either controller creates or updates
\* in the store carries the managed-by label (instance name for the DB
\* controller, controller name for the HTTP controller), the owner reference
\* of the instance, and a non-empty namespace, the instance's when the
\* template sets none.
C28_AppliedResourcesLabelledOwnedNamespaced ==
  [][\A id \in DOMAIN store' :
       (id \notin DOMAIN store \/ store'[id] # store[id] \/ id \in cyc'.applied)
         => /\ store'[id].label = ManagedByValue
            /\ store'[id].owner = InstUID
            /\ store'[id].ns # ""
            /\ \A i \in DOMAIN source :
                 (ProducedBy(id, i) /\ source[i].ns = "")
                   => store'[id].ns = InstNamespace]_vars

C28_Witness ==
  /\ cyc.kind = "normal"
  /\ \E id \in cyc.applied : \E i \in DOMAIN source :
       /\ ProducedBy(id, i) /\ source[i].ns = ""
       /\ id \in DOMAIN store /\ store[id].ns = InstNamespace
       /\ store[id].owner = InstUID

\* C29: in every cycle of either controller the prune deletions come after
\* the apply step was attempted for every record: a cycle that issued a
\* deletion has applied every record whose own steps succeed, and no cycle
\* deletes a resource it applied.
C29_PruneAfterAllApplies ==
  cyc.kind = "normal"
    => /\ cyc.delIssued \cap cyc.applied = {}
       /\ cyc.applied \subseteq DOMAIN store
       /\ cyc.delIssued # {}
            => \A i \in DOMAIN source :
                 RowOK(source[i]) => IdOf(Rendered(source[i])) \in cyc.applied

C29_Witness ==
  /\ cyc.kind = "normal"
  /\ cyc.delIssued # {}
  /\ cyc.applied # {}
  /\ Len(source) > 1

\* C30: DB controller: after a cycle with prune enabled and no failed list or
\* delete, a live labelled resource stays only if a resource of the same
\* group, version, kind, namespace and name was applied in the cycle.
C30_PruneComparesFullIdentity ==
  (/\ ctl = "db" /\ cyc.kind = "normal" /\ cyc.pre = "ok"
   /\ GetPrune(inst.prune)
   /\ ~cyc.listErr /\ cyc.delFailed = {})
    => \A id \in DBLabelled(store) : id \in cyc.applied

\* C31: DB controller: no Reconcile (pruning or cascade deletion) deletes an
\* object that has no owner reference to the instance.
C31_DeletesOnlyOwned ==
  [][(ctl = "db" /\ cyc'.kind \in {"normal", "deletion"})
       => \A id \in DOMAIN store :
            store[id].owner # InstUID => id \in DOMAIN store']_vars

\* C40: HTTP controller, two instances in one namespace: no Reconcile of this
\* instance (pruning or cascade deletion) deletes an object whose owner
\* reference points at the other instance.
C40_NeverDeletesOtherInstancesResources ==
  [][(ctl = "http" /\ cyc'.kind # "none")
       => \A id \in DOMAIN store :
            store[id].owner = OtherUID
              => id \in DOMAIN store' /\ id \notin cyc'.delIssued]_vars

C40_Witness ==
  /\ ctl = "http"
  /\ cyc.kind \in {"normal", "deletion"}
  /\ cyc.delIssued # {}
  /\ \E id \in DOMAIN store : store[id].owner = OtherUID

\* C32: an update event on an owned child that changes only its status
\* (resourceVersion changes; generation, labels and annotations do not)
\* passes the event filter of either controller.
C32_StatusOnlyUpdatePassesFilter ==
  (/\ call.fn = "OwnsPredicates" /\ call.done
   /\ call.event.type = "update"
   /\ call.event.new.status # call.event.old.status
   /\ call.event.new.resourceVersion # call.event.old.resourceVersion
   /\ call.event.new.generation = call.event.old.generation
   /\ call.event.new.labels = call.event.old.labels
   /\ call.event.new.annotations = call.event.old.annotations)
    => call.out

\* C33: in both controllers a Reconcile of an instance with a deletion
\* timestamp runs only the deletion path: no client, no fetch, no apply, no
\* write-back, no status write, and no object is created or changed.
C33_DeletionPathOnly ==
  [][(inst.phase = "deleting" /\ cyc'.kind # "none")
       => /\ cyc'.kind = "deletion"
          /\ ~cyc'.connected /\ ~cyc'.fetched
          /\ cyc'.applied = {}
          /\ cyc'.wb = "none"
          /\ cyc'.statusUpdates = <<>>
          /\ status' = status
          /\ \A id \in DOMAIN store' :
               id \in DOMAIN store /\ store'[id] = store[id]]_vars

C33_Witness ==
  /\ cyc.kind = "deletion"
  /\ cyc.delIssued # {}
  /\ inst.phase \in {"deleting", "gone"}

C35_ClientsClosedOnReturn ==
  (call.fn = "Reconcile" /\ call.pc = "done") => call.open = {}

C35_Witness ==
  /\ call.fn = "Reconcile" /\ call.pc = "done"
  /\ Cardinality(call.everOpen) > 2
  /\ \E k \in DOMAIN call.children : call.children[k].outcome = "execErr"

\* C36: HTTP controller: a cycle whose fetch succeeds with an empty list of
\* records succeeds (Reconciled=True) and empties status.managedResources;
\* with prune enabled and no failed list or delete no owned resource is left.
C36_EmptyResponseSucceeds ==
  (/\ ctl = "http" /\ cyc.kind = "normal" /\ cyc.pre = "ok"
   /\ inst.config = "ok"
   /\ source = <<>>)
    => /\ ReconciledTrue
       /\ status.managedResources = <<>>
       /\ (inst.prune = "true" /\ ~cyc.listErr /\ cyc.delFailed = {})
            => HTTPOwnedSet(store) = {}

C39_PrunerKeepsReturnedRows ==
  [][(ctl = "db" /\ cyc'.kind = "normal" /\ GetPrune(inst.prune))
       => \A id \in cyc'.delIssued \cap DBLabelled(store) :
            ~\E i \in DOMAIN source :
                /\ IdOf(source[i]) = id
                /\ Rendered(source[i]).ns = InstNamespace]_vars

\* The resources of the records the source returns whose steps succeed.
HealRecords == {IdOf(source[i]) : i \in {k \in DOMAIN source : RowOK(source[k])}}
\* The resource id is absent from the store while the source returns its record.
HealMissing(id) == id \in HealRecords /\ id \notin DOMAIN store
\* The resource id exists with the ownership label and the owner reference of
\* the instance.
HealRestored(id) ==
  IF id \in DOMAIN store
    THEN store[id].label = ManagedByValue /\ store[id].owner = InstUID
    ELSE FALSE
\* The last Reconcile was a cycle that succeeded.
HealCycleSucceeded ==
  cyc.kind = "normal" /\ cyc.pre = "ok" /\ cyc.errors = <<>> /\ ReconciledTrue

\* C38: self-healing: with a source that keeps returning the record of a
\* resource and cycles that succeed again and again, a resource that is
\* missing from the store (an outside actor deleted it) exists again in the
\* end, with the ownership label and the owner reference of the instance,
\* once the queued cycles ran.
C38_SelfHealing ==
  ([]<>HealCycleSucceeded)
    => ((\E id \in Ids : HealMissing(id)) ~> (\A id \in HealRecords : HealRestored(id)))
\* The last cycle succeeded and applied a resource whose record the source
\* still returns, and the resource is gone: somebody else deleted it.
C38_Witness ==
  /\ HealCycleSucceeded
  /\ \E id \in cyc.applied : HealMissing(id)

====
